---------------------------- MODULE Spec2Model ----------------------------
(***************************************************************************)
(* smart-xerox (Django app "smartprint"): pricing of print items, order    *)
(* submission (user_panel), cost preview (calculate_cost_ajax) and the     *)
(* order lifecycle driven by the administrative views and the bulk         *)
(* approve_orders admin action.                                            *)
(*                                                                         *)
(* Money is counted in hundredths of a rupee (DecimalField with            *)
(* decimal_places=2), so 1.00 is 100.                                      *)
(***************************************************************************)
EXTENDS Integers, Sequences, FiniteSets, TLC

(***************************************************************************)
(* Bounds of the model.                                                    *)
(***************************************************************************)
MaxPages == 3
MaxCopies == 2
MaxOrders == 2
MaxForms == 2
MaxTime == 2
MaxRuns == 2
MaxViews == 2

(***************************************************************************)
(* Program constants: the defaults of PriceSetting.                        *)
(***************************************************************************)
DefaultBwPage == 100
DefaultColorPage == 500
DefaultBindingCost == 2000

(***************************************************************************)
(* Python values.  A value carries its type tag; the unused fields hold a  *)
(* fixed filler so that any two values can be compared.                    *)
(***************************************************************************)
PyStr(s) == [t |-> "str", s |-> s, n |-> 0, b |-> FALSE]
PyInt(n) == [t |-> "int", s |-> "", n |-> n, b |-> FALSE]
PyBool(b) == [t |-> "bool", s |-> "", n |-> 0, b |-> b]
PyNone == [t |-> "none", s |-> "", n |-> 0, b |-> FALSE]

\* The integers whose numerals the model may have to parse.
Numerals == -10..10

\* Python's  x == 'literal' : a str equals only the same str; a bool, an
\* int or None never equals a str.
PyEqStr(x, lit) == x.t = "str" /\ x.s = lit

\* Python's truthiness, as used by  `x or default`  and  `if not x`.
PyTruthy(x) ==
    CASE x.t = "str" -> x.s # ""
      [] x.t = "int" -> x.n # 0
      [] x.t = "bool" -> x.b
      [] OTHER -> FALSE

\* Python's  x or d
PyOr(x, d) == IF PyTruthy(x) THEN x ELSE d

\* int(x): defined on ints, bools and numerals; ValueError / TypeError else.
IntDefined(x) ==
    CASE x.t = "int" -> TRUE
      [] x.t = "bool" -> TRUE
      [] x.t = "str" -> \E k \in Numerals : ToString(k) = x.s
      [] OTHER -> FALSE

IntOf(x) ==
    CASE x.t = "int" -> x.n
      [] x.t = "bool" -> (IF x.b THEN 1 ELSE 0)
      [] OTHER -> CHOOSE k \in Numerals : ToString(k) = x.s

\* str(x).lower() of a bool attribute of a PrintJob instance.
StrLower(x) ==
    CASE x.t = "bool" -> PyStr(IF x.b THEN "true" ELSE "false")
      [] x.t = "int" -> PyStr(ToString(x.n))
      [] x.t = "none" -> PyStr("none")
      [] OTHER -> x

(***************************************************************************)
(* PriceSetting rows.                                                      *)
(***************************************************************************)
DefaultPrices ==
    [bw |-> DefaultBwPage, color |-> DefaultColorPage, binding |-> DefaultBindingCost]

\* Rates an administrator may save through the admin site.
EditedPrices == [bw |-> 150, color |-> 400, binding |-> 1000]

PriceTables == {DefaultPrices, EditedPrices}

\* "No row" of PriceSetting.
NoPrices == [bw |-> -1, color |-> -1, binding |-> -1]

(***************************************************************************)
(* calculate_item_cost(item_data, price_settings).  item_data is           *)
(*   [isdict, num_copies, total_pages, is_color, needs_binding]            *)
(* with isdict telling a dict from a PrintJob instance; the callers of     *)
(* this repository always supply the four keys, so the .get() defaults     *)
(* are never taken.                                                        *)
(* The result is [ok |-> FALSE] when int() raises, else the cost.          *)
(***************************************************************************)
CostError == [ok |-> FALSE, cost |-> 0]

\* The flag is the comparison of the value with the string 'true'.
FlagOf(item_data, v) ==
    IF item_data.isdict THEN PyEqStr(v, "true")
    ELSE PyEqStr(StrLower(v), "true")

\* A variant that takes the number of copies as given.
CopiesAsGiven(n) == n

ClampCopies(n) == IF n < 1 THEN 1 ELSE n

ClampPages(n) == IF n < 0 THEN 0 ELSE n

calculate_item_cost(item_data, price_settings) ==
    IF ~IntDefined(item_data.num_copies) \/ ~IntDefined(item_data.total_pages)
    THEN CostError
    ELSE
      LET num_copies == ClampCopies(IntOf(item_data.num_copies))
          total_pages == ClampPages(IntOf(item_data.total_pages))
          is_color == FlagOf(item_data, item_data.is_color)
          needs_binding == FlagOf(item_data, item_data.needs_binding)
          pagesCost == IF is_color THEN total_pages * price_settings.color
                       ELSE total_pages * price_settings.bw
          cost == pagesCost + (IF needs_binding THEN price_settings.binding ELSE 0)
      IN [ok |-> TRUE, cost |-> cost * num_copies]

\* The closed form of the specification.
FormulaCost(pages, copies, color, binding, p) ==
    copies * (pages * (IF color THEN p.color ELSE p.bw)
              + (IF binding THEN p.binding ELSE 0))


(***************************************************************************)
(* The data one form of the formset carries, as the browser sends it:      *)
(*   doc     an uploaded file is attached                                  *)
(*   count   what PyMuPDF reports for that file (-1: it raises)            *)
(*   predef  the chosen PredefinedDocument (0: none)                       *)
(*   pages, copies   the text of the two number inputs                     *)
(*   color, binding  the two check boxes                                   *)
(*   del     the raw value of the DELETE input                             *)
(***************************************************************************)
PredefinedDocs == <<[total_pages |-> 5]>>

MkForm(doc, count, predef, pages, copies, color, binding, del) ==
    [doc |-> doc, count |-> count, predef |-> predef, pages |-> pages,
     copies |-> copies, color |-> color, binding |-> binding, del |-> del]

\* CheckboxInput.value_from_datadict followed by BooleanField.to_python.
CheckboxValue(raw) ==
    CASE raw = "true" -> TRUE
      [] raw = "false" -> FALSE
      [] OTHER -> raw # ""

\* IntegerField.to_python: '' is None, a numeral is its integer, anything
\* else is invalid.
IntFieldEmpty(raw) == raw = ""

IntFieldInvalid(raw) == raw # "" /\ ~IntDefined(PyStr(raw))

IntFieldValue(raw) == IntOf(PyStr(raw))

\* Field.has_changed against the initial data of an unsaved PrintJob
\* (total_pages 0, num_copies 1, the flags False, no file).
IntFieldChanged(raw, initial) ==
    IntFieldInvalid(raw) \/ IntFieldEmpty(raw) \/ IntFieldValue(raw) # initial

HasChanged(f) ==
    \/ f.doc
    \/ f.predef # 0
    \/ IntFieldChanged(f.pages, 0)
    \/ IntFieldChanged(f.copies, 1)
    \/ f.color
    \/ f.binding
    \/ CheckboxValue(f.del)

\* Errors of the fields' own cleaning: document, total_pages and
\* num_copies are required (the model fields are not blank=True).
FieldErrors(f) ==
    \/ ~f.doc
    \/ IntFieldEmpty(f.pages) \/ IntFieldInvalid(f.pages)
    \/ IntFieldEmpty(f.copies) \/ IntFieldInvalid(f.copies)

\* PrintJobItemForm.clean
CleanErrors(f) ==
    LET document == f.doc
        predefined_document == f.predef # 0
        pagesMissing == IntFieldEmpty(f.pages) \/ IntFieldInvalid(f.pages)
    IN IF f.del # "" THEN FALSE
       ELSE \/ (~document /\ ~predefined_document)
            \/ (document /\ predefined_document)
            \/ ((document \/ predefined_document)
                  /\ (pagesMissing \/ IntFieldValue(f.pages) <= 0))

\* BaseForm.full_clean with empty_permitted (every form of a formset
\* without initial forms): an unchanged form is not cleaned at all.
FormValid(f) == ~HasChanged(f) \/ (~FieldErrors(f) /\ ~CleanErrors(f))

\* BaseFormSet._should_delete_form
ShouldDelete(f) == HasChanged(f) /\ CheckboxValue(f.del)

\* BaseFormSet.is_valid
FormsetValid(fs) ==
    \A i \in 1..Len(fs) : ShouldDelete(fs[i]) \/ FormValid(fs[i])

\* form.cleaned_data of a form that is_valid lets through, as the dict
\* handed to calculate_item_cost.
CleanedData(f) ==
    [isdict |-> TRUE,
     num_copies |-> PyInt(IntFieldValue(f.copies)),
     total_pages |-> PyInt(IntFieldValue(f.pages)),
     is_color |-> PyBool(f.color),
     needs_binding |-> PyBool(f.binding)]

\* A variant whose loop does not look at DELETE.
SkippedKeepDeleted(f) ==
    \/ ~HasChanged(f)
    \/ (~f.doc /\ f.predef = 0)

\* user_panel, lines 91-97: the forms the loop skips.
Skipped(f) ==
    \/ ShouldDelete(f)
    \/ ~HasChanged(f)
    \/ (~f.doc /\ f.predef = 0)

(***************************************************************************)
(* Payloads: the formsets a browser posts.                                 *)
(***************************************************************************)
\* The example of the specification: 10 pages, 2 copies, mono, bound.
FormBound == MkForm(TRUE, 10, 0, "10", "2", FALSE, TRUE, "")

\* A colour item whose file holds more pages than the user declared.
FormColor == MkForm(TRUE, 3, 0, "1", "1", TRUE, FALSE, "")

\* An item the user removed again.
FormDeleted == MkForm(TRUE, 1, 0, "1", "1", FALSE, FALSE, "true")

\* An item with neither an upload nor a predefined document.
FormNoSource == MkForm(FALSE, -1, 0, "2", "1", FALSE, FALSE, "")

\* The extra form of the formset as it is rendered, posted untouched: the
\* number inputs hold the defaults of PrintJob (0 pages, 1 copy).
FormBlank == MkForm(FALSE, -1, 0, "0", "1", FALSE, FALSE, "")

\* An item with an upload and a predefined document at once.
FormBoth == MkForm(TRUE, 3, 1, "2", "1", FALSE, FALSE, "")

\* An item the user removed after leaving its fields incomplete; the
\* browser sends the checked DELETE box as 'on'.
FormDeletedInvalid == MkForm(FALSE, -1, 0, "", "1", TRUE, FALSE, "on")

\* An upload PyMuPDF cannot open.
FormUncountable == MkForm(TRUE, -1, 0, "2", "1", FALSE, FALSE, "")

\* An item with both sources whose DELETE input is sent as 'false', the
\* way the page's script sends a check box that is off.
FormBothUnmarked == MkForm(TRUE, 3, 1, "2", "1", FALSE, FALSE, "false")

\* The formsets of the lifecycle's orders: 1..MaxForms items, a bound mono
\* item and a colour item in turn.
LifecyclePayloads ==
    {[i \in 1..k |-> IF i % 2 = 1 THEN FormBound ELSE FormColor] : k \in 1..MaxForms}

Payloads(F, n) == UNION {[1..k -> F] : k \in 1..n}

(***************************************************************************)
(* The state: the three tables, the clock, and the requests in flight.     *)
(***************************************************************************)
VARIABLES
    price,      \* the PriceSetting row, or NoPrices
    orders,     \* PrintOrder rows; the index is the primary key
    items,      \* PrintJob rows; the index is the primary key
    stats,      \* the running totals approve_orders means to keep
    now,        \* what timezone.now() returns next
    fitz,       \* PyMuPDF could be imported
    sub,        \* the user_panel POST being handled, or the last one
    preview,    \* the estimate the page shows for its form data
    bulk,       \* the runs of the approve_orders admin action
    calc,       \* one call of calculate_item_cost and its result
    page,       \* the form data the browser of SpecSubmit holds
    submitted,  \* history: the orders whose submission was answered with
                \* the redirect to order_success
    credited,   \* history: the orders a run of approve_orders took through
                \* its whole block (status, items, totals)
    resp,       \* who sent the last request to a view behind
                \* user_passes_test(is_admin), and what the decorator did
    adm         \* the requests to the administrative views that run
                \* beside one another: what each has loaded, then saved

vars == <<price, orders, items, stats, now, fitz, sub, preview, bulk, calc,
          page, submitted, credited, resp, adm>>

\* PrintOrder.objects.create(user=...): the defaults of the model.
NewOrder ==
    [status |-> "PENDING", payment_status |-> "PENDING", total |-> 0,
     amount_paid |-> 0, approved_at |-> 0, completed_at |-> 0]

NoSub ==
    [pc |-> "idle", forms |-> <<>>, price |-> NoPrices, order |-> 0,
     obj |-> NewOrder, idx |-> 0, acc |-> 0]

NoPreview == [forms |-> <<>>, price |-> NoPrices, ok |-> FALSE, text |-> ""]

NoRun ==
    [pc |-> "idle", queue |-> <<>>, jobs |-> <<>>, total_pages |-> 0,
     total_cost |-> 0, price |-> NoPrices]

NoResp == [user |-> [is_authenticated |-> FALSE, is_superuser |-> FALSE],
           out |-> "none"]

NoView == [pc |-> "idle", view |-> "none", id |-> 0, obj |-> NewOrder]

NoCalc == [caller |-> "none", pages |-> 0, copies |-> 0, color |-> FALSE,
           binding |-> FALSE, prices |-> NoPrices, done |-> FALSE,
           result |-> CostError]

Init ==
    /\ price = NoPrices
    /\ orders = <<>>
    /\ items = <<>>
    /\ stats = [total_earnings |-> 0, total_pages_printed |-> 0]
    /\ now = 1
    /\ fitz = TRUE
    /\ sub = NoSub
    /\ preview = NoPreview
    /\ bulk = [r \in 1..MaxRuns |-> NoRun]
    /\ calc = NoCalc
    /\ page = <<>>
    /\ submitted = {}
    /\ credited = {}
    /\ resp = NoResp
    /\ adm = [a \in 1..MaxViews |-> NoView]

(***************************************************************************)
(* user_panel (POST).                                                      *)
(***************************************************************************)
\* A variant that only reads the row.
GetPricesOnly(p) == p

\* PriceSetting.objects.get_or_create(pk=1)
GetOrCreatePrices(p) == IF p = NoPrices THEN DefaultPrices ELSE p

\* A variant that always takes the page count the user declared.
DeclaredPages(f) == IntFieldValue(f.pages)

\* lines 102-126: the page count the item is saved with.
ResolvePages(f) ==
    IF f.predef # 0 THEN PredefinedDocs[f.predef].total_pages
    ELSE IF f.doc /\ fitz THEN (IF f.count < 0 THEN 0 ELSE f.count)
    ELSE IntFieldValue(f.pages)

\* line 131: the cost is computed from the form's cleaned_data.
ItemCost(f, price_settings) == calculate_item_cost(CleanedData(f), price_settings).cost

\* lines 99-132: the PrintJob row saved for a form.
NewItem(f, order, price_settings) ==
    [order |-> order,
     total_pages |-> ResolvePages(f),
     num_copies |-> IntFieldValue(f.copies),
     is_color |-> f.color,
     needs_binding |-> f.binding,
     cost |-> ItemCost(f, price_settings),
     printed |-> FALSE]

\* lines 79-87: the price row is read (or created), the formset validated
\* and, when it is valid, the order row created.
SubmitBegin(fs) ==
    /\ sub.pc # "items"
    /\ price' = GetOrCreatePrices(price)
    /\ IF FormsetValid(fs)
       THEN /\ Len(orders) < MaxOrders
            /\ orders' = Append(orders, NewOrder)
            /\ sub' = [pc |-> "items", forms |-> fs, price |-> price',
                       order |-> Len(orders) + 1, obj |-> NewOrder,
                       idx |-> 1, acc |-> 0]
       ELSE /\ orders' = orders
            /\ sub' = [NoSub EXCEPT !.pc = "invalid", !.forms = fs,
                                    !.price = price']
    /\ preview' = IF preview.forms = fs THEN preview ELSE NoPreview
    /\ UNCHANGED <<items, stats, now, fitz, bulk, calc, page, submitted, credited, resp, adm>>

\* lines 89-133: one turn of the loop over the forms.
SubmitItem ==
    /\ sub.pc = "items"
    /\ sub.idx <= Len(sub.forms)
    /\ LET f == sub.forms[sub.idx]
       IN IF Skipped(f)
          THEN /\ items' = items
               /\ sub' = [sub EXCEPT !.idx = @ + 1]
          ELSE LET item == NewItem(f, sub.order, sub.price)
               IN /\ items' = Append(items, item)
                  /\ sub' = [sub EXCEPT !.idx = @ + 1, !.acc = @ + item.cost]
    /\ UNCHANGED <<price, orders, stats, now, fitz, preview, bulk, calc, page, submitted, credited, resp, adm>>

\* A variant that saves the order without assigning the total first.
SubmitFinishUnsummed ==
    /\ sub.pc = "items"
    /\ sub.idx > Len(sub.forms)
    /\ orders' = [orders EXCEPT ![sub.order] = sub.obj]
    /\ sub' = [NoSub EXCEPT !.pc = "done", !.forms = sub.forms,
                            !.price = sub.price, !.order = sub.order]
    /\ submitted' = submitted \cup {sub.order}
    /\ UNCHANGED <<price, items, stats, now, fitz, preview, bulk, calc, page, credited, resp, adm>>

\* lines 135-140: print_order.save() writes every field of the object
\* created at line 86, with the total.
SubmitFinish ==
    /\ sub.pc = "items"
    /\ sub.idx > Len(sub.forms)
    /\ orders' = [orders EXCEPT ![sub.order] =
                      [sub.obj EXCEPT !.total = sub.acc]]
    /\ sub' = [NoSub EXCEPT !.pc = "done", !.forms = sub.forms,
                            !.price = sub.price, !.order = sub.order]
    /\ submitted' = submitted \cup {sub.order}
    /\ UNCHANGED <<price, items, stats, now, fitz, preview, bulk, calc, page, credited, resp, adm>>

\* The request ends in an exception (a failing save, a lost database
\* connection, a killed worker) between two saves: nothing one of the
\* saves wrote is rolled back, no transaction spans them.
SubmitCrash ==
    /\ sub.pc = "items"
    /\ sub' = [NoSub EXCEPT !.pc = "failed", !.forms = sub.forms,
                            !.price = sub.price, !.order = sub.order]
    /\ UNCHANGED <<price, orders, items, stats, now, fitz, preview, bulk, calc, page, submitted, credited, resp, adm>>

(***************************************************************************)
(* calculate_cost_ajax.                                                    *)
(***************************************************************************)
\* The JavaScript of the page sends a check box as 'true' or 'false'.
AjaxFlag(b) == PyStr(IF b THEN "true" ELSE "false")

\* lines 193-198
AjaxItemData(f) ==
    [isdict |-> TRUE,
     num_copies |-> PyOr(PyStr(f.copies), PyStr("1")),
     total_pages |-> PyOr(PyStr(f.pages), PyStr("0")),
     is_color |-> PyOr(AjaxFlag(f.color), PyStr("false")),
     needs_binding |-> PyOr(AjaxFlag(f.binding), PyStr("false"))]

\* lines 187-201: the loop over the forms from form i on; an exception of
\* calculate_item_cost ends it.
RECURSIVE AjaxTotal(_, _, _)
AjaxTotal(fs, i, price_settings) ==
    IF i > Len(fs) THEN [ok |-> TRUE, cost |-> 0]
    ELSE LET rest == AjaxTotal(fs, i + 1, price_settings)
             one == calculate_item_cost(AjaxItemData(fs[i]), price_settings)
         IN IF fs[i].del = "true" THEN rest
            ELSE IF ~one.ok \/ ~rest.ok THEN CostError
            ELSE [ok |-> TRUE, cost |-> one.cost + rest.cost]

TwoDigits(n) == IF n < 10 THEN "0" \o ToString(n) ELSE ToString(n)

\* f'... {total_order_cost:.2f}' of an amount in hundredths (the currency
\* sign in front is written Rs here).
FormatCost(c) == "Rs " \o ToString(c \div 100) \o "." \o TwoDigits(c % 100)

\* The JSON response: the estimate, or an error with status 500.
AjaxResponse(fs, p) ==
    IF p = NoPrices THEN [ok |-> FALSE, text |-> "Price settings not found"]
    ELSE LET t == AjaxTotal(fs, 1, p)
         IN IF t.ok THEN [ok |-> TRUE, text |-> FormatCost(t.cost)]
            ELSE [ok |-> FALSE, text |-> "An unexpected error occurred"]

calculate_cost_ajax(fs) ==
    /\ preview' = [forms |-> fs, price |-> price,
                   ok |-> AjaxResponse(fs, price).ok,
                   text |-> AjaxResponse(fs, price).text]
    /\ UNCHANGED <<price, orders, items, stats, now, fitz, sub, bulk, calc, page, submitted, credited, resp, adm>>

(***************************************************************************)
(* The administrative views.  Each loads the order, sets its fields and    *)
(* saves it.                                                               *)
(***************************************************************************)
\* request.user: AnonymousUser, a student, or a superuser.
AnonymousUser == [is_authenticated |-> FALSE, is_superuser |-> FALSE]

Student == [is_authenticated |-> TRUE, is_superuser |-> FALSE]

AdminUser == [is_authenticated |-> TRUE, is_superuser |-> TRUE]

Users == {AnonymousUser, Student, AdminUser}

\* A variant that lets every logged-in user through.
is_admin_any_login(user) == user.is_authenticated

is_admin(user) == user.is_authenticated /\ user.is_superuser

\* @user_passes_test(is_admin): the view runs when the test passes; else
\* the answer is the redirect to the login page and the view does not run.
user_passes_test(user, view) ==
    IF is_admin(user)
    THEN view /\ resp' = [user |-> user, out |-> "view"]
    ELSE /\ resp' = [user |-> user, out |-> "login"]
         /\ UNCHANGED <<price, orders, items, stats, now, fitz, sub, preview,
                        bulk, calc, page, submitted, credited, adm>>

OrderIds == 1..Len(orders)

ItemIds == 1..Len(items)

ItemsOf(o) == {i \in ItemIds : items[i].order = o}

approve_order(order_id) ==
    /\ order_id \in OrderIds
    /\ now <= MaxTime
    /\ orders' = [orders EXCEPT ![order_id] =
                      [@ EXCEPT !.status = "APPROVED", !.approved_at = now]]
    /\ now' = now + 1
    /\ UNCHANGED <<price, items, stats, fitz, sub, preview, bulk, calc, page, submitted, credited, adm>>

\* A variant that also forgets the approval.
reject_order_reset(order_id) ==
    /\ order_id \in OrderIds
    /\ orders' = [orders EXCEPT ![order_id] =
                      [@ EXCEPT !.status = "REJECTED", !.approved_at = 0]]
    /\ UNCHANGED <<price, items, stats, now, fitz, sub, preview, bulk, calc, page, submitted, credited, adm>>

reject_order(order_id) ==
    /\ order_id \in OrderIds
    /\ orders' = [orders EXCEPT ![order_id] = [@ EXCEPT !.status = "REJECTED"]]
    /\ UNCHANGED <<price, items, stats, now, fitz, sub, preview, bulk, calc, page, submitted, credited, adm>>

complete_order(order_id) ==
    /\ order_id \in OrderIds
    /\ now <= MaxTime
    /\ orders' = [orders EXCEPT ![order_id] =
                      [@ EXCEPT !.status = "COMPLETED", !.completed_at = now]]
    /\ now' = now + 1
    /\ UNCHANGED <<price, items, stats, fitz, sub, preview, bulk, calc, page, submitted, credited, adm>>

mark_as_paid_order(order_id) ==
    /\ order_id \in OrderIds
    /\ orders' = [orders EXCEPT ![order_id] =
                      [@ EXCEPT !.payment_status = "FULL_PAID"]]
    /\ UNCHANGED <<price, items, stats, now, fitz, sub, preview, bulk, calc, page, submitted, credited, adm>>

\* A variant that flips the flag on every call.
print_job_document_flip(order_id, item_id) ==
    /\ order_id \in OrderIds
    /\ item_id \in ItemsOf(order_id)
    /\ items' = [items EXCEPT ![item_id] = [@ EXCEPT !.printed = ~@]]
    /\ UNCHANGED <<price, orders, stats, now, fitz, sub, preview, bulk, calc, page, submitted, credited, adm>>

print_job_document(order_id, item_id) ==
    /\ order_id \in OrderIds
    /\ item_id \in ItemsOf(order_id)
    /\ items' = IF items[item_id].printed THEN items
                ELSE [items EXCEPT ![item_id] = [@ EXCEPT !.printed = TRUE]]
    /\ UNCHANGED <<price, orders, stats, now, fitz, sub, preview, bulk, calc, page, submitted, credited, adm>>

\* A variant that reprices what is stored at the new rates.
EditPriceReprice(p) ==
    /\ p # price
    /\ price' = p
    /\ items' = [i \in 1..Len(items) |->
                    [items[i] EXCEPT !.cost =
                        FormulaCost(ClampPages(items[i].total_pages),
                                    ClampCopies(items[i].num_copies),
                                    items[i].is_color, items[i].needs_binding, p)]]
    /\ orders' = [o \in 1..Len(orders) |->
                     [orders[o] EXCEPT !.total = 0]]
    /\ UNCHANGED <<stats, now, fitz, sub, preview, bulk, calc, page, submitted, credited, resp, adm>>

\* The PriceSetting row edited on the admin site.
EditPrice(p) ==
    /\ p # price
    /\ price' = p
    /\ UNCHANGED <<orders, items, stats, now, fitz, sub, preview, bulk, calc, page, submitted, credited, resp, adm>>

(***************************************************************************)
(* The same views when requests run beside one another: the row is loaded  *)
(* by get_object_or_404, and the object, with its field(s) assigned, is    *)
(* written back whole by order.save().                                     *)
(***************************************************************************)
ViewNames == {"approve_order", "reject_order", "complete_order", "mark_as_paid_order"}

\* The views that stamp a time.
Stamps(view) == view \in {"approve_order", "complete_order"}

\* lines 311-312, 320, 328-329, 337: the assignments to the loaded object.
Assigned(view, obj, t) ==
    CASE view = "approve_order" -> [obj EXCEPT !.status = "APPROVED", !.approved_at = t]
      [] view = "reject_order" -> [obj EXCEPT !.status = "REJECTED"]
      [] view = "complete_order" -> [obj EXCEPT !.status = "COMPLETED", !.completed_at = t]
      [] OTHER -> [obj EXCEPT !.payment_status = "FULL_PAID"]

\* order = get_object_or_404(PrintOrder, pk=order_id)
ViewLoad(a, view, order_id) ==
    /\ adm[a].pc = "idle"
    /\ order_id \in OrderIds
    /\ adm' = [adm EXCEPT ![a] = [pc |-> "loaded", view |-> view, id |-> order_id,
                                   obj |-> orders[order_id]]]
    /\ UNCHANGED <<price, orders, items, stats, now, fitz, sub, preview, bulk,
                   calc, page, submitted, credited>>

\* the assignments and order.save(), which writes every field of the
\* loaded object
ViewSave(a) ==
    /\ adm[a].pc = "loaded"
    /\ Stamps(adm[a].view) => now <= MaxTime
    /\ orders' = [orders EXCEPT ![adm[a].id] =
                      Assigned(adm[a].view, adm[a].obj, now)]
    /\ now' = IF Stamps(adm[a].view) THEN now + 1 ELSE now
    /\ adm' = [adm EXCEPT ![a] = [@ EXCEPT !.pc = "done", !.obj = NewOrder]]
    /\ UNCHANGED <<price, items, stats, fitz, sub, preview, bulk, calc, page,
                   submitted, credited, resp>>

(***************************************************************************)
(* The admin action approve_orders(modeladmin, request, queryset).         *)
(***************************************************************************)
\* PriceSetting declares neither total_earnings nor total_pages_printed:
\* the two hasattr tests of approve_orders.
HasTotalEarnings == FALSE

HasTotalPagesPrinted == FALSE

\* The change list orders the queryset by descending primary key.
RECURSIVE DescSeq(_)
DescSeq(S) ==
    IF S = {} THEN <<>>
    ELSE LET m == CHOOSE x \in S : \A y \in S : y <= x
         IN <<m>> \o DescSeq(S \ {m})

RECURSIVE AscSeq(_)
AscSeq(S) ==
    IF S = {} THEN <<>>
    ELSE LET m == CHOOSE x \in S : \A y \in S : x <= y
         IN <<m>> \o AscSeq(S \ {m})

\* The rows a queryset yields: each with its primary key.
OrderRows(ids) == [k \in 1..Len(ids) |-> [id |-> ids[k], row |-> orders[ids[k]]]]

ItemRows(ids) == [k \in 1..Len(ids) |-> [id |-> ids[k], row |-> items[ids[k]]]]

\* line 9 and the start of the loop of line 11: the price row and the
\* selected orders are fetched.  The run takes the first free slot.
BulkBegin(r, sel) ==
    /\ bulk[r].pc = "idle"
    /\ \A q \in 1..(r - 1) : bulk[q].pc # "idle"
    /\ sel # {}
    /\ bulk' = [bulk EXCEPT ![r] =
                   [NoRun EXCEPT !.pc = "next", !.price = price,
                                 !.queue = OrderRows(DescSeq(sel))]]
    /\ UNCHANGED <<price, orders, items, stats, now, fitz, sub, preview, calc, page, submitted, credited, resp, adm>>

\* A variant without the test of line 12.
BulkOrderAlways(r) ==
    /\ bulk[r].pc = "next"
    /\ bulk[r].queue # <<>>
    /\ now <= MaxTime
    /\ LET order == Head(bulk[r].queue)
       IN /\ orders' = [orders EXCEPT ![order.id] =
                            [order.row EXCEPT !.status = "APPROVED",
                                              !.approved_at = now]]
          /\ bulk' = [bulk EXCEPT ![r] =
                         [@ EXCEPT !.pc = "jobs",
                                   !.jobs = ItemRows(AscSeq(ItemsOf(order.id))),
                                   !.total_pages = 0,
                                   !.total_cost = 0]]
    /\ now' = now + 1
    /\ UNCHANGED <<price, items, stats, fitz, sub, preview, calc, page, submitted, credited, resp, adm>>

\* lines 11-18: the next order of the queryset; one not yet APPROVED is
\* saved as APPROVED and its items are fetched.
BulkOrder(r) ==
    /\ bulk[r].pc = "next"
    /\ bulk[r].queue # <<>>
    /\ LET order == Head(bulk[r].queue)
       IN IF order.row.status # "APPROVED"
          THEN /\ now <= MaxTime
               /\ orders' = [orders EXCEPT ![order.id] =
                                [order.row EXCEPT !.status = "APPROVED",
                                                  !.approved_at = now]]
               /\ now' = now + 1
               /\ bulk' = [bulk EXCEPT ![r] =
                              [@ EXCEPT !.pc = "jobs",
                                        !.jobs = ItemRows(AscSeq(ItemsOf(order.id))),
                                        !.total_pages = 0,
                                        !.total_cost = 0]]
          ELSE /\ bulk' = [bulk EXCEPT ![r] = [@ EXCEPT !.queue = Tail(@)]]
               /\ UNCHANGED <<orders, now>>
    /\ UNCHANGED <<price, items, stats, fitz, sub, preview, calc, page, submitted, credited, resp, adm>>

\* lines 20-25: one item of the order is counted and saved as printed.
BulkJob(r) ==
    /\ bulk[r].pc = "jobs"
    /\ bulk[r].jobs # <<>>
    /\ LET job == Head(bulk[r].jobs)
       IN /\ items' = [items EXCEPT ![job.id] = [job.row EXCEPT !.printed = TRUE]]
          /\ bulk' = [bulk EXCEPT ![r] =
                         [@ EXCEPT !.jobs = Tail(@),
                                   !.total_pages = @ + job.row.total_pages * job.row.num_copies,
                                   !.total_cost = @ + job.row.cost]]
    /\ UNCHANGED <<price, orders, stats, now, fitz, sub, preview, calc, page, submitted, credited, resp, adm>>

\* lines 27-35: the totals go to the fields PriceSetting has, and the
\* price row fetched at line 9 is saved.
BulkStats(r) ==
    /\ bulk[r].pc = "jobs"
    /\ bulk[r].jobs = <<>>
    /\ IF bulk[r].price # NoPrices
       THEN /\ stats' = [total_earnings |->
                             IF HasTotalEarnings
                             THEN stats.total_earnings + bulk[r].total_cost
                             ELSE stats.total_earnings,
                         total_pages_printed |->
                             IF HasTotalPagesPrinted
                             THEN stats.total_pages_printed + bulk[r].total_pages
                             ELSE stats.total_pages_printed]
            /\ price' = bulk[r].price
       ELSE UNCHANGED <<stats, price>>
    /\ bulk' = [bulk EXCEPT ![r] = [@ EXCEPT !.pc = "next", !.queue = Tail(@)]]
    /\ credited' = credited \cup {Head(bulk[r].queue).id}
    /\ UNCHANGED <<orders, items, now, fitz, sub, preview, calc, page, submitted, resp, adm>>

\* The queryset is exhausted: the action returns.
BulkEnd(r) ==
    /\ bulk[r].pc = "next"
    /\ bulk[r].queue = <<>>
    /\ bulk' = [bulk EXCEPT ![r] = NoRun]
    /\ UNCHANGED <<price, orders, items, stats, now, fitz, sub, preview, calc, page, submitted, credited, resp, adm>>

\* The action is interrupted between two saves; no transaction spans them.
BulkCrash(r) ==
    /\ bulk[r].pc \in {"next", "jobs"}
    /\ bulk' = [bulk EXCEPT ![r] = NoRun]
    /\ UNCHANGED <<price, orders, items, stats, now, fitz, sub, preview, calc, page, submitted, credited, resp, adm>>

(***************************************************************************)
(* The system: requests are handled one at a time (Spec).                  *)
(***************************************************************************)
\* No request is being handled.
Quiet ==
    /\ sub.pc # "items"
    /\ \A r \in 1..MaxRuns : bulk[r].pc = "idle"

\* A request starts when no other is being handled; those that take
\* several saves then run step by step, or are interrupted.
Next ==
    \/ \E fs \in LifecyclePayloads : Quiet /\ SubmitBegin(fs)
    \/ SubmitItem
    \/ SubmitFinish
    \/ SubmitCrash
    \/ \E o \in 1..MaxOrders : Quiet /\ user_passes_test(AdminUser, approve_order(o))
    \/ \E o \in 1..MaxOrders : Quiet /\ user_passes_test(AdminUser, reject_order(o))
    \/ \E o \in 1..MaxOrders : Quiet /\ user_passes_test(AdminUser, complete_order(o))
    \/ \E o \in 1..MaxOrders : Quiet /\ user_passes_test(AdminUser, mark_as_paid_order(o))
    \/ \E o \in 1..MaxOrders : \E i \in 1..(MaxOrders * MaxForms) :
            Quiet /\ user_passes_test(AdminUser, print_job_document(o, i))
    \/ \E r \in 1..MaxRuns : \E sel \in SUBSET OrderIds : Quiet /\ BulkBegin(r, sel)
    \/ \E r \in 1..MaxRuns : BulkOrder(r)
    \/ \E r \in 1..MaxRuns : BulkJob(r)
    \/ \E r \in 1..MaxRuns : BulkStats(r)
    \/ \E r \in 1..MaxRuns : BulkEnd(r)
    \/ \E r \in 1..MaxRuns : BulkCrash(r)

Spec == Init /\ [][Next]_vars

(***************************************************************************)
(* Submissions and previews alone (SpecSubmit): one order, the forms a     *)
(* browser can post, the price table edited in between.                    *)
(***************************************************************************)
\* Upload-only items over the pricing attributes.
PricingForms ==
    {MkForm(TRUE, 3, 0, pages, copies, color, binding, "") :
        pages \in {"1", "10"}, copies \in {"0", "2"},
        color \in BOOLEAN, binding \in BOOLEAN}

SubmitForms ==
    PricingForms \cup {FormBound, FormColor, FormDeleted, FormNoSource,
                       FormBlank, FormBoth, FormDeletedInvalid,
                       FormUncountable, FormBothUnmarked}

InitSubmit ==
    /\ price = NoPrices
    /\ orders = <<>>
    /\ items = <<>>
    /\ stats = [total_earnings |-> 0, total_pages_printed |-> 0]
    /\ now = 1
    /\ fitz \in BOOLEAN
    /\ sub = NoSub
    /\ preview = NoPreview
    /\ bulk = [r \in 1..MaxRuns |-> NoRun]
    /\ calc = NoCalc
    /\ page \in Payloads(SubmitForms, MaxForms)
    /\ submitted = {}
    /\ credited = {}
    /\ resp = NoResp
    /\ adm = [a \in 1..MaxViews |-> NoView]

NextSubmit ==
    \/ Quiet /\ orders = <<>> /\ SubmitBegin(page)
    \/ Quiet /\ orders = <<>> /\ calculate_cost_ajax(page)
    \/ \E p \in PriceTables : Quiet /\ EditPrice(p)
    \/ SubmitItem
    \/ SubmitFinish
    \/ SubmitCrash

SpecSubmit == InitSubmit /\ [][NextSubmit]_vars

(***************************************************************************)
(* One order and the five views behind user_passes_test, requested by      *)
(* every kind of user (SpecAuth).                                          *)
(***************************************************************************)
NextAuth ==
    \/ \E fs \in LifecyclePayloads : Quiet /\ orders = <<>> /\ SubmitBegin(fs)
    \/ SubmitItem
    \/ SubmitFinish
    \/ \E user \in Users : \E o \in OrderIds :
            Quiet /\ user_passes_test(user, approve_order(o))
    \/ \E user \in Users : \E o \in OrderIds :
            Quiet /\ user_passes_test(user, reject_order(o))
    \/ \E user \in Users : \E o \in OrderIds :
            Quiet /\ user_passes_test(user, complete_order(o))
    \/ \E user \in Users : \E o \in OrderIds :
            Quiet /\ user_passes_test(user, mark_as_paid_order(o))
    \/ \E user \in Users : \E o \in OrderIds : \E i \in ItemIds :
            Quiet /\ user_passes_test(user, print_job_document(o, i))

SpecAuth == Init /\ [][NextAuth]_vars

(***************************************************************************)
(* The lifecycle with the price table edited in between (SpecFrozen):      *)
(* every request runs to its end.                                          *)
(***************************************************************************)
NextFrozen ==
    \/ \E fs \in LifecyclePayloads : Quiet /\ SubmitBegin(fs)
    \/ SubmitItem
    \/ SubmitFinish
    \/ \E p \in PriceTables : Quiet /\ EditPrice(p)
    \/ \E o \in OrderIds : Quiet /\ user_passes_test(AdminUser, approve_order(o))
    \/ \E o \in OrderIds : Quiet /\ user_passes_test(AdminUser, reject_order(o))
    \/ \E o \in OrderIds : Quiet /\ user_passes_test(AdminUser, complete_order(o))
    \/ \E o \in OrderIds : Quiet /\ user_passes_test(AdminUser, mark_as_paid_order(o))
    \/ \E o \in OrderIds : \E i \in ItemIds :
            Quiet /\ user_passes_test(AdminUser, print_job_document(o, i))
    \/ \E sel \in SUBSET OrderIds : Quiet /\ BulkBegin(1, sel)
    \/ BulkOrder(1)
    \/ BulkJob(1)
    \/ BulkStats(1)
    \/ BulkEnd(1)

SpecFrozen == Init /\ [][NextFrozen]_vars

(***************************************************************************)
(* One submitted order and MaxViews requests to the administrative views   *)
(* whose loads and saves interleave (SpecRace).                            *)
(***************************************************************************)
NextRace ==
    \/ \E fs \in LifecyclePayloads : Quiet /\ orders = <<>> /\ SubmitBegin(fs)
    \/ SubmitItem
    \/ SubmitFinish
    \/ \E a \in 1..MaxViews : \E view \in ViewNames : \E o \in submitted :
            user_passes_test(AdminUser, ViewLoad(a, view, o))
    \/ \E a \in 1..MaxViews : ViewSave(a)

SpecRace == Init /\ [][NextRace]_vars

(***************************************************************************)
(* One submission with the administrator acting on its order while it is   *)
(* still being handled (SpecMidSubmit).                                    *)
(***************************************************************************)
NextMidSubmit ==
    \/ \E fs \in LifecyclePayloads : orders = <<>> /\ SubmitBegin(fs)
    \/ SubmitItem
    \/ SubmitFinish
    \/ \E o \in OrderIds : user_passes_test(AdminUser, approve_order(o))
    \/ \E o \in OrderIds : user_passes_test(AdminUser, mark_as_paid_order(o))
    \/ \E sel \in SUBSET OrderIds : BulkBegin(1, sel)
    \/ BulkOrder(1)
    \/ BulkJob(1)
    \/ BulkStats(1)
    \/ BulkEnd(1)

SpecMidSubmit == Init /\ [][NextMidSubmit]_vars

(***************************************************************************)
(* calculate_item_cost alone (SpecCost): one call on drawn inputs.         *)
(***************************************************************************)
CalcCallers == {"ajax", "form", "instance"}

CalcPages == {-5} \cup 0..MaxPages \cup {10}

CalcCopies == -1..MaxCopies

\* The item_data each caller builds for the same item.
CalcItemData(c) ==
    LET f == MkForm(TRUE, c.pages, 0, ToString(c.pages), ToString(c.copies),
                    c.color, c.binding, "")
    IN CASE c.caller = "ajax" -> AjaxItemData(f)
         [] c.caller = "form" -> CleanedData(f)
         [] OTHER -> [CleanedData(f) EXCEPT !.isdict = FALSE]

InitCost ==
    /\ price = NoPrices
    /\ orders = <<>>
    /\ items = <<>>
    /\ stats = [total_earnings |-> 0, total_pages_printed |-> 0]
    /\ now = 1
    /\ fitz = TRUE
    /\ sub = NoSub
    /\ preview = NoPreview
    /\ bulk = [r \in 1..MaxRuns |-> NoRun]
    /\ page = <<>>
    /\ submitted = {}
    /\ credited = {}
    /\ resp = NoResp
    /\ adm = [a \in 1..MaxViews |-> NoView]
    /\ calc \in [caller : CalcCallers, pages : CalcPages, copies : CalcCopies,
                 color : BOOLEAN, binding : BOOLEAN, prices : PriceTables,
                 done : {FALSE}, result : {CostError}]

Calc ==
    /\ ~calc.done
    /\ calc' = [calc EXCEPT !.done = TRUE,
                            !.result = calculate_item_cost(CalcItemData(calc), calc.prices)]
    /\ UNCHANGED <<price, orders, items, stats, now, fitz, sub, preview, bulk,
                   page, submitted, credited, resp, adm>>

NextCost == Calc

SpecCost == InitCost /\ [][NextCost]_vars

(***************************************************************************)
(* Properties.                                                             *)
(***************************************************************************)
RECURSIVE SumCost(_)
SumCost(S) ==
    IF S = {} THEN 0
    ELSE LET i == CHOOSE x \in S : TRUE
         IN items[i].cost + SumCost(S \ {i})

RECURSIVE SumPages(_)
SumPages(S) ==
    IF S = {} THEN 0
    ELSE LET i == CHOOSE x \in S : TRUE
         IN items[i].total_pages * items[i].num_copies + SumPages(S \ {i})

RECURSIVE SumOrderCosts(_)
SumOrderCosts(S) ==
    IF S = {} THEN 0
    ELSE LET o == CHOOSE x \in S : TRUE
         IN SumCost(ItemsOf(o)) + SumOrderCosts(S \ {o})

RECURSIVE SumOrderPages(_)
SumOrderPages(S) ==
    IF S = {} THEN 0
    ELSE LET o == CHOOSE x \in S : TRUE
         IN SumPages(ItemsOf(o)) + SumOrderPages(S \ {o})

\* C1: for pageCount >= 0 and copies >= 1, calculate_item_cost returns
\* copies * (pageCount * rate + binding), for the AJAX preview (flags as the
\* strings 'true'/'false') and for the order submission (flags as the
\* booleans of cleaned_data) alike.
C1_CostFormulaBothCallers ==
    (calc.done /\ calc.caller \in {"ajax", "form"}
       /\ calc.pages >= 0 /\ calc.copies >= 1)
    => (calc.result.ok
        /\ calc.result.cost =
             FormulaCost(calc.pages, calc.copies, calc.color, calc.binding,
                         calc.prices))

\* Every delete flag of the formset is one both views read alike: not set,
\* or 'true'.
PlainDeleteFlags(fs) == \A k \in 1..Len(fs) : fs[k].del \in {"", "true"}

\* C2: the total the preview returned for the form data equals the total
\* user_panel persisted for the same form data, the price table being the
\* same for both.
C2_PreviewEqualsPersisted ==
    (sub.pc = "done" /\ preview.forms = sub.forms /\ preview.price = sub.price
       /\ PlainDeleteFlags(sub.forms))
    => (preview.ok /\ preview.text = FormatCost(orders[sub.order].total))

\* C3: every item a successful submission persisted has the cost the
\* pricing formula (on the clamped counts) gives for its own persisted
\* attributes and the price table read at submission.
C3_PersistedItemCost ==
    sub.pc = "done"
    => \A i \in ItemsOf(sub.order) :
          items[i].cost =
             FormulaCost(ClampPages(items[i].total_pages),
                         ClampCopies(items[i].num_copies),
                         items[i].is_color, items[i].needs_binding, sub.price)

\* C4: once a submission has completed, the order's total is the sum of
\* the costs of exactly its items, and stays so under every later
\* lifecycle operation.
C4_TotalIsSumOfItems ==
    \A o \in submitted : orders[o].total = SumCost(ItemsOf(o))

\* C4's case: a submitted order of two items that was bulk-approved,
\* completed and paid, beside another order with items of its own.
C4_Witness ==
    \E o \in submitted :
        /\ Cardinality(ItemsOf(o)) >= 2
        /\ orders[o].total > 0
        /\ orders[o].status = "COMPLETED"
        /\ orders[o].payment_status = "FULL_PAID"
        /\ o \in credited
        /\ \A i \in ItemsOf(o) : items[i].printed
        /\ \E q \in OrderIds \ {o} : ItemsOf(q) # {}

\* C5: a submission that has ended left no order, or one order holding
\* every form the loop does not skip, with the sum of their costs as total.
C5_AllOrNothing ==
    sub.pc \in {"done", "invalid", "failed"}
    => \/ sub.order = 0
       \/ /\ Cardinality(ItemsOf(sub.order)) =
               Cardinality({k \in 1..Len(sub.forms) : ~Skipped(sub.forms[k])})
          /\ orders[sub.order].total = SumCost(ItemsOf(sub.order))

\* The edges of the order state machine.
AllowedEdges ==
    {<<"PENDING", "APPROVED">>, <<"PENDING", "REJECTED">>,
     <<"APPROVED", "IN_PROGRESS">>, <<"APPROVED", "COMPLETED">>,
     <<"IN_PROGRESS", "COMPLETED">>}

\* C6: every change of an order's status follows an edge of the state
\* machine; REJECTED and COMPLETED are never left.
C6_StatusEdges ==
    [][\A o \in submitted :
          orders'[o].status # orders[o].status
          => <<orders[o].status, orders'[o].status>> \in AllowedEdges]_vars

\* C7: approve_order changes an order only when it is PENDING.
C7_ApproveOnlyPending ==
    [][\A o \in submitted :
          (approve_order(o) /\ orders[o].status # "PENDING")
          => orders'[o] = orders[o]]_vars

\* C8: approved_at is set exactly when the status is APPROVED, IN_PROGRESS
\* or COMPLETED, and completed_at exactly when it is COMPLETED.
C8_TimestampsMatchStatus ==
    \A o \in submitted :
        /\ (orders[o].approved_at # 0)
             <=> (orders[o].status \in {"APPROVED", "IN_PROGRESS", "COMPLETED"})
        /\ (orders[o].completed_at # 0) <=> (orders[o].status = "COMPLETED")

\* C9: when a run of approve_orders meets an order an earlier run has
\* already taken through its block, the earnings counter holds the cost and
\* the pages counter the pages of every such order exactly once.
C9_CountersOncePerOrder ==
    [][\A r \in 1..MaxRuns :
          (BulkOrder(r) /\ Head(bulk[r].queue).id \in credited
             /\ Head(bulk[r].queue).id \in submitted)
          => /\ stats'.total_earnings = SumOrderCosts(credited)
             /\ stats'.total_pages_printed = SumOrderPages(credited)]_vars

\* C10: when approve_orders is interrupted, the order it was processing is
\* not left APPROVED with an item not marked printed or with its totals
\* missing from the counters.
C10_BulkAtomicPerOrder ==
    [][\A r \in 1..MaxRuns :
          (BulkCrash(r) /\ bulk[r].pc = "jobs"
             /\ Head(bulk[r].queue).id \in submitted)
          => LET o == Head(bulk[r].queue).id
             IN ~(/\ orders'[o].status = "APPROVED"
                  /\ \/ \E i \in ItemsOf(o) : ~items'[i].printed
                     \/ o \notin credited')]_vars

\* An item spec the user did not mark for deletion that carries both an
\* upload and a predefined document, or neither.
BothOrNeither(f) == f.del = "" /\ (f.doc <=> (f.predef # 0))

\* C11: a submission with a non-deleted item spec that carries both an
\* upload and a predefined document, or neither, is rejected and creates
\* no order and no item.
C11_BothOrNeitherRejected ==
    (sub.pc # "idle" /\ \E k \in 1..Len(sub.forms) : BothOrNeither(sub.forms[k]))
    => (sub.pc = "invalid" /\ orders = <<>> /\ items = <<>>)

\* The user checked the DELETE box of the form (a browser sends 'on', the
\* page's script 'true').
DeleteMarked(f) == f.del \in {"on", "true"}

\* The formset without the forms marked for deletion.
Kept(fs) == SelectSeq(fs, LAMBDA f : ~DeleteMarked(f))

\* The rows user_panel saves for a formset none of whose forms is marked.
RECURSIVE ExpectedItems(_, _, _, _)
ExpectedItems(fs, i, order, price_settings) ==
    IF i > Len(fs) THEN <<>>
    ELSE IF ~fs[i].doc \/ ~HasChanged(fs[i])
         THEN ExpectedItems(fs, i + 1, order, price_settings)
    ELSE <<NewItem(fs[i], order, price_settings)>>
         \o ExpectedItems(fs, i + 1, order, price_settings)

RECURSIVE SeqCost(_)
SeqCost(rows) == IF rows = <<>> THEN 0 ELSE Head(rows).cost + SeqCost(Tail(rows))

\* C12: a form marked for deletion is not validated (the submission is
\* refused only when a form that is not marked is invalid), is not saved
\* as an item and adds nothing to the total: the order holds the items, and
\* the total, of the same formset without the marked forms.
C12_DeletedItemExcluded ==
    /\ sub.pc = "invalid" => ~FormsetValid(Kept(sub.forms))
    /\ sub.pc = "done"
       => /\ FormsetValid(Kept(sub.forms))
          /\ [k \in 1..Len(items) |-> items[k]]
               = ExpectedItems(Kept(sub.forms), 1, sub.order, sub.price)
          /\ orders[sub.order].total
               = SeqCost(ExpectedItems(Kept(sub.forms), 1, sub.order, sub.price))

\* C12's case: a finished submission of two forms, the first one marked
\* for deletion and not valid on its own, the second one saved and priced.
C12_Witness ==
    /\ sub.pc = "done"
    /\ Len(sub.forms) = 2
    /\ DeleteMarked(sub.forms[1]) /\ ~FormValid(sub.forms[1])
    /\ ~DeleteMarked(sub.forms[2])
    /\ Len(items) = 1
    /\ orders[sub.order].total = items[1].cost
    /\ orders[sub.order].total > 0

\* C13: print_job_document on an existing item leaves the item printed,
\* changes nothing at all when the item was printed already, and never
\* changes an order.
C13_PrintIdempotent ==
    [][\A o \in OrderIds : \A i \in ItemsOf(o) :
          print_job_document(o, i)
          => /\ items'[i].printed
             /\ items[i].printed => items' = items
             /\ \A j \in ItemIds \ {i} : items'[j] = items[j]
             /\ orders' = orders]_vars

\* C13's case: an item printed through print_job_document (its order was
\* never approved, so no bulk approval set the flag) in an order that is
\* still PENDING and unpaid.
C13_Witness ==
    \E o \in submitted : \E i \in ItemsOf(o) :
        /\ items[i].printed
        /\ orders[o].approved_at = 0
        /\ orders[o].status = "PENDING"
        /\ orders[o].payment_status = "PENDING"

\* The caller is not an administrator.
NotAdministrator(user) == ~user.is_authenticated \/ ~user.is_superuser

\* C14: requested by a caller who is not an administrator, each of the five
\* administrative views answers with the authorization outcome and leaves
\* every order and every item as it was.
C14_NonAdminChangesNothing ==
    [][\A user \in Users : \A o \in OrderIds : \A i \in ItemIds :
          (NotAdministrator(user)
             /\ \/ user_passes_test(user, approve_order(o))
                \/ user_passes_test(user, reject_order(o))
                \/ user_passes_test(user, complete_order(o))
                \/ user_passes_test(user, mark_as_paid_order(o))
                \/ user_passes_test(user, print_job_document(o, i)))
          => (resp'.out = "login" /\ orders' = orders /\ items' = items)]_vars

\* C14's case: a logged-in student was just refused while an order with
\* items, still PENDING, unpaid and unprinted, is stored.
C14_Witness ==
    /\ resp = [user |-> Student, out |-> "login"]
    /\ \E o \in submitted :
          /\ orders[o].status = "PENDING"
          /\ orders[o].payment_status = "PENDING"
          /\ ItemsOf(o) # {}
          /\ \A i \in ItemsOf(o) : ~items[i].printed

\* C15 as stated: with no PriceSetting row, the preview reports a failure,
\* and so does the submission, which creates no order, no item and no
\* PriceSetting row.
C15_NoPricesFailsBoth ==
    [][/\ (price = NoPrices /\ calculate_cost_ajax(page)) => ~preview'.ok
       /\ (price = NoPrices /\ SubmitBegin(page))
          => /\ sub'.pc = "invalid"
             /\ orders' = orders /\ items' = items /\ price' = NoPrices]_vars

\* C15, amended: with no PriceSetting row, the preview reports the missing
\* configuration and stores nothing; the submission does not fail for it:
\* it creates the row with the default rates and, given a valid formset,
\* creates the order and prices it at those rates.
C15_NoPricesPreviewFailsSubmitDefaults ==
    [][/\ (price = NoPrices /\ calculate_cost_ajax(page))
          => /\ ~preview'.ok /\ preview'.text = "Price settings not found"
             /\ price' = NoPrices /\ orders' = orders /\ items' = items
       /\ (price = NoPrices /\ SubmitBegin(page))
          => /\ price' = DefaultPrices
             /\ sub'.price = DefaultPrices
             /\ FormsetValid(page) <=> Len(orders') = Len(orders) + 1
             /\ FormsetValid(page) <=> sub'.pc = "items"]_vars

\* C15's case: the preview was refused for want of a PriceSetting row, and
\* the submission of the same form data went through at the default rates.
C15_Witness ==
    /\ preview.price = NoPrices /\ ~preview.ok
    /\ preview.forms = sub.forms
    /\ sub.pc = "done"
    /\ sub.price = DefaultPrices /\ price = DefaultPrices
    /\ orders[sub.order].total > 0

\* C16: no step, be it an edit of the price table or a lifecycle
\* operation, changes the cost of a stored item or the total of a
\* submitted order.
C16_CostsFrozen ==
    [][/\ \A i \in ItemIds : items'[i].cost = items[i].cost
       /\ \A o \in submitted : orders'[o].total = orders[o].total]_vars

\* C16's case: two submitted orders whose first items have the same
\* counts and different costs (the rates were edited between the two
\* submissions), the older one bulk-approved, completed and paid since.
C16_Witness ==
    \E o \in submitted : \E q \in submitted :
        /\ o < q
        /\ orders[o].status = "COMPLETED" /\ orders[o].payment_status = "FULL_PAID"
        /\ o \in credited
        /\ orders[o].total # orders[q].total
        /\ \E i \in ItemsOf(o) : \E j \in ItemsOf(q) :
              /\ items[i].total_pages = items[j].total_pages
              /\ items[i].num_copies = items[j].num_copies
              /\ items[i].is_color = items[j].is_color
              /\ items[i].needs_binding = items[j].needs_binding
              /\ items[i].cost # items[j].cost

\* C17: a call with copies < 1 returns, without error, what the same call
\* with copies = 1 returns, and a call with pageCount < 0 what the same call
\* with pageCount = 0 returns.
C17_InputsClamped ==
    calc.done
    => /\ calc.result.ok
       /\ calc.copies < 1
          => calc.result = calculate_item_cost(
                               CalcItemData([calc EXCEPT !.copies = 1]), calc.prices)
       /\ calc.pages < 0
          => calc.result = calculate_item_cost(
                               CalcItemData([calc EXCEPT !.pages = 0]), calc.prices)

\* C17's case: a call with 0 copies of 10 pages that returned a cost, and
\* (in another behaviour) a call with -5 pages.
C17_Witness ==
    /\ calc.done
    /\ \/ calc.copies = 0 /\ calc.pages = 10 /\ calc.result.cost > 0
       \/ calc.pages = -5 /\ calc.copies = MaxCopies /\ calc.result.ok

\* C18: every item an accepted submission stored has total_pages >= 0 and
\* num_copies >= 1.
C18_StoredCountsInRange ==
    sub.pc = "done"
    => \A i \in ItemsOf(sub.order) :
          items[i].total_pages >= 0 /\ items[i].num_copies >= 1

\* The forms of a formset that are saved as items.
SavedForms(fs) == SelectSeq(fs, LAMBDA f : ~Skipped(f))

\* The precedence of the specification.
PagesByPrecedence(f) ==
    CASE f.predef # 0 -> PredefinedDocs[f.predef].total_pages
      [] f.predef = 0 /\ f.doc /\ fitz -> (IF f.count >= 0 THEN f.count ELSE 0)
      [] OTHER -> (IF f.pages = "" THEN 0 ELSE IntFieldValue(f.pages))

\* C19: the page count an accepted item is stored with is the predefined
\* document's, else the count of the upload when the counter is available
\* (0 when counting fails, the item being stored all the same), else the
\* declared count (0 when absent).
C19_PageCountPrecedence ==
    sub.pc = "done"
    => /\ Len(items) = Len(SavedForms(sub.forms))
       /\ \A k \in 1..Len(items) :
             items[k].total_pages = PagesByPrecedence(SavedForms(sub.forms)[k])

\* C19's case: a finished submission, the counter available, whose first
\* item is an upload that could not be counted (stored with 0 pages) and
\* whose second item was counted to other than the declared number.
C19_Witness ==
    /\ sub.pc = "done" /\ fitz
    /\ Len(sub.forms) = 2 /\ Len(items) = 2
    /\ sub.forms[1].count < 0 /\ items[1].total_pages = 0
    /\ items[2].total_pages = sub.forms[2].count
    /\ items[2].total_pages # IntFieldValue(sub.forms[2].pages)

\* C20: approve_orders, coming to a selected order that is not APPROVED,
\* sets its status to APPROVED and stamps approved_at, and by the end of
\* the order's block every item of it is marked printed; coming to an order
\* that is APPROVED already it changes neither the order nor an item; no
\* step of the action changes another order or another order's items.
C20_BulkApproveEffect ==
    [][\A r \in 1..MaxRuns :
          LET o == Head(bulk[r].queue).id
          IN /\ BulkOrder(r)
                => /\ \A q \in OrderIds \ {o} : orders'[q] = orders[q]
                   /\ items' = items
                   /\ IF orders[o].status # "APPROVED"
                      THEN /\ orders'[o].status = "APPROVED"
                           /\ orders'[o].approved_at = now
                           /\ bulk'[r].pc = "jobs"
                      ELSE /\ orders'[o] = orders[o]
                           /\ bulk'[r].pc = "next"
             /\ BulkJob(r)
                => /\ orders' = orders
                   /\ \A i \in ItemIds :
                         IF i \in ItemsOf(o)
                         THEN items[i].printed => items'[i] = items[i]
                         ELSE items'[i] = items[i]
             /\ BulkStats(r)
                => /\ orders' = orders /\ items' = items
                   /\ orders[o].status = "APPROVED" /\ orders[o].approved_at # 0
                   /\ \A i \in ItemsOf(o) : items[i].printed]_vars

\* C20's case: an order a run of approve_orders approved, all its items
\* printed, beside an order approved through approve_order at another
\* time, which no run took through its block and whose items are unprinted.
C20_Witness ==
    \E o \in submitted : \E q \in submitted :
        /\ o \in credited /\ orders[o].status = "APPROVED"
        /\ ItemsOf(o) # {} /\ \A i \in ItemsOf(o) : items[i].printed
        /\ q \notin credited /\ orders[q].status = "APPROVED"
        /\ orders[q].approved_at < orders[o].approved_at
        /\ ItemsOf(q) # {} /\ \A i \in ItemsOf(q) : ~items[i].printed
        /\ \A r \in 1..MaxRuns : bulk[r].pc = "idle"

\* C21: reject_order on an existing order, whatever its status, sets the
\* status to REJECTED and changes nothing else: not another field of the
\* order, not another order, no item, not the counters, not the rates.
C21_RejectOnlyStatus ==
    [][\A o \in OrderIds :
          reject_order(o)
          => /\ orders' = [orders EXCEPT ![o] = [@ EXCEPT !.status = "REJECTED"]]
             /\ items' = items
             /\ stats' = stats
             /\ price' = price]_vars

\* C21's case: an order rejected after it had been bulk-approved and paid:
\* it is REJECTED and keeps its total, its payment status, its approval
\* time and its printed items.
C21_Witness ==
    \E o \in submitted :
        /\ orders[o].status = "REJECTED"
        /\ orders[o].approved_at # 0
        /\ orders[o].payment_status = "FULL_PAID"
        /\ orders[o].total > 0
        /\ o \in credited
        /\ ItemsOf(o) # {} /\ \A i \in ItemsOf(o) : items[i].printed

\* The status a status-changing view sets.
TargetStatus(view) ==
    CASE view = "approve_order" -> "APPROVED"
      [] view = "reject_order" -> "REJECTED"
      [] OTHER -> "COMPLETED"

\* C22: when mark_as_paid_order and one status-changing view have both run
\* on the same order, in whatever interleaving, and no other request has,
\* the order is FULL_PAID and has the status, and the time stamp, that the
\* status-changing view set.
C22_NoLostUpdate ==
    \A a \in 1..MaxViews : \A b \in 1..MaxViews :
        (/\ adm[a].pc = "done" /\ adm[a].view = "mark_as_paid_order"
         /\ adm[b].pc = "done" /\ adm[b].view \in ViewNames \ {"mark_as_paid_order"}
         /\ adm[a].id = adm[b].id
         /\ \A c \in 1..MaxViews \ {a, b} : adm[c].pc = "idle")
        => LET o == orders[adm[a].id]
           IN /\ o.payment_status = "FULL_PAID"
              /\ o.status = TargetStatus(adm[b].view)
              /\ adm[b].view = "approve_order" => o.approved_at # 0
              /\ adm[b].view = "complete_order" => o.completed_at # 0

\* C23: the final save of a submission leaves the status, approved_at and
\* payment_status of its order as an administrative action set them in
\* the meantime, and an order a run of approve_orders has approved never
\* holds an unprinted item while it is APPROVED.
C23_SubmissionKeepsAdminWork ==
    [][/\ SubmitFinish
          => /\ orders'[sub.order].status = orders[sub.order].status
             /\ orders'[sub.order].approved_at = orders[sub.order].approved_at
             /\ orders'[sub.order].payment_status = orders[sub.order].payment_status
       /\ \A o \in credited :
             orders'[o].status = "APPROVED"
             => \A i \in 1..Len(items') :
                   items'[i].order = o => items'[i].printed]_vars

\* C24: a form is exempted from the rules of clean() (its raw DELETE value
\* is not empty) only if user_panel does not save it and the preview does
\* not count it; hence every form saved as an item has exactly one source
\* and a declared page count above 0.
C24_DeleteFlagConsistent ==
    sub.pc = "done"
    => \A k \in 1..Len(sub.forms) :
          LET f == sub.forms[k]
          IN /\ f.del # "" => (Skipped(f) /\ f.del = "true")
             /\ ~Skipped(f)
                => /\ f.doc # (f.predef # 0)
                   /\ ~IntFieldEmpty(f.pages) /\ IntFieldValue(f.pages) > 0

=============================================================================
